---- MODULE Spec2Model ----
(***************************************************************************)
(* Verification model of the calendar code of MyMICDS-v2:                  *)
(*   - scheduleFeed.getSchedule (src/src/libs/portal.js), the merge of the *)
(*     intraday events of one date into the day's schedule;                *)
(*   - getDaysOff / getBreaks (src/src/libs/dates.js), the grouping of the *)
(*     days without rotation day into breaks;                              *)
(*   - lastFridayMay / schoolEnds (src/src/libs/dates.js);                 *)
(*   - the date filter and the all-day branch of getSchedule;              *)
(*   - api.respond and api.adminOverride (src/src/libs/api.js) and the     *)
(*     POST /suggestion/send handler (src/src/routes/suggestionAPI.js);    *)
(*   - the remember-me cookie: compareCookie, generateToken and the        *)
(*     remember middleware (src/src/libs/portal.js).                       *)
(* Instants are integers.  JavaScript objects are modelled by a heap       *)
(* (object id -> fields), because getSchedule stores the same block object *)
(* at several indices of the schedule array.                               *)
(***************************************************************************)
EXTENDS Integers, Sequences, FiniteSets, TLC

\* ------------------------------------------------------------------ bounds
\* Instants of the requested date that an intraday event may start or end at.
MaxTime == 5
\* Largest number of intraday events in the feed for the requested date.
MaxEvents == 4
\* Largest number of days in the window scanned by getDaysOff.
MaxWindow == 5
\* Day number (days since the epoch) of the first day of the window; kept
\* small so that millisecond values stay within TLC's integers.
FirstDay == 2

\* First year and number of years tried for lastFridayMay and the clock; the
\* range covers every weekday May 31 can fall on.
FirstYear == 2016
NumYears == 11
\* Largest number of events of the feed when the whole _.each callback
\* (date filter, all-day branch, intraday branch) is explored.
MaxFeed == 2
\* Number of instants of a day an event of that feed can start at: 0 is
\* 00:00:00, DaySlots is 00:00:00 of the next day.
DaySlots == 3
\* Largest number of requests that go through the remember middleware.
MaxRequests == 3

\* --------------------------------------------------------------- constants
\* One calendar day in milliseconds, the threshold of getBreaks.
DayMs == 86400000
\* One hour in milliseconds, the shift of a daylight-saving transition.
HourMs == DayMs \div 24

VARIABLES
    \* ---- scheduleFeed.getSchedule
    parsed,      \* intraday events of the date handed to the _.each callback so far
    schedule,    \* the array `schedule`: a sequence of object ids
    heap,        \* object id -> [start, end, class] of the period objects
    pc,          \* "each" | "done" (returned) | "threw" (TypeError propagated)
    visited,     \* the blocks the forEach callback was called with in the last merge
    \* ---- getDaysOff / getBreaks
    dayMin,      \* first day of the window (moment().startOf('day') - previous months)
    dayMax,      \* last day of the window (moment().startOf('day') + upcoming months)
    tz,          \* daylight-saving transition of the server's time zone in the window
    days,        \* dates for which getDayRotations reports a rotation day
    dayPointer,  \* the loop variable of getDaysOff
    daysOff,     \* the array daysOff
    ri,          \* number of elements of daysOff consumed by the reduce of getBreaks
    i,           \* the variable i of getBreaks
    stack,       \* the accumulator of the reduce (a possibly sparse array)
    bpc,         \* "rotations" | "scan" | "reduce" | "done" | "failed"
    rotFeed,     \* what the rotation feed supplied to portal.getDayRotations
    cb,          \* the invocations of the callback of getBreaks, in order
    \* ---- lastFridayMay / schoolEnds
    now,         \* the clock: what moment() returns
    lfmArg,      \* the argument of the last call of lastFridayMay
    lastDay,     \* the moment returned by the last call of lastFridayMay
    ends,        \* the moment returned by the last call of schoolEnds
    \* ---- getSchedule: the arguments, the clock and the all-day branch
    req,         \* the arguments (day, month, year) of getSchedule
    current,     \* new Date() at the call of getSchedule
    fed,         \* number of events of the feed handed to the _.each callback
    last,        \* the event handed to the _.each callback most recently
    events,      \* the array `events`
    scheduleDay, \* the variable scheduleDay
    \* ---- api.respond / api.adminOverride / POST /suggestion/send
    respArgs,    \* the arguments (error, data, action) of the last call of respond
    response,    \* the response of that call: HTTP status and the bodies sent
    areq,        \* the request handed to adminOverride: user, body.behalfOf, query.behalfOf
    apiUser,     \* req.apiUser
    nextCalls,   \* number of calls of next() by adminOverride for that request
    sugPc,       \* "idle" | "pending" (sendEmail running) | "done" | "threw"
    sugErr,      \* the err admins.sendEmail called back with: "null" or its message
    sugRes,      \* the arguments of the calls of res.json by the suggestion handler
    \* ---- compareCookie / generateToken / remember
    remember,    \* the documents of the collection 'remember'
    today,       \* new Date() in compareCookie
    rq           \* the requests that went through the remember middleware

schedVars == <<parsed, schedule, heap, pc, visited>>
breakVars == <<dayMin, dayMax, tz, days, dayPointer, daysOff, ri, i, stack, bpc,
               rotFeed, cb>>
endVars == <<now, lfmArg, lastDay, ends>>
feedVars == <<req, current, fed, last, events, scheduleDay>>
apiVars == <<respArgs, response, areq, apiUser, nextCalls, sugPc, sugErr, sugRes>>
cookieVars == <<remember, today, rq>>
vars == <<parsed, schedule, heap, pc, visited,
          dayMin, dayMax, tz, days, dayPointer, daysOff, ri, i, stack, bpc,
          rotFeed, cb, now, lfmArg, lastDay, ends,
          req, current, fed, last, events, scheduleDay,
          respArgs, response, areq, apiUser, nextCalls, sugPc, sugErr, sugRes,
          remember, today, rq>>

Range(s) == {s[k] : k \in 1..Len(s)}

\* ===================================================================
\* scheduleFeed.getSchedule
\* ===================================================================

\* Array.prototype.splice(index, 1); k is the 1-based position.
splice(s, k) ==
    [j \in 1..(Len(s) - 1) |-> IF j < k THEN s[j] ELSE s[j + 1]]

\* The callback of schedule.forEach for the block at (1-based) position k,
\* against the incoming period [startTime, endTime).  st is
\* [schedule, heap, threw, visited].
overlapBlock(st, k, startTime, endTime) ==
    LET block      == st.schedule[k]
        startBlock == st.heap[block].start
        endBlock   == st.heap[block].end
        \* If start is inside period but end is not
        s1 == IF (startBlock < startTime /\ startTime < endBlock) /\ endBlock < endTime
              THEN [st EXCEPT !.heap[st.schedule[k]].start = endTime]
              ELSE st
        \* If end is inside period but start is not
        s2 == IF (startBlock < endTime /\ endTime < endBlock) /\ startTime < startBlock
              THEN [s1 EXCEPT !.heap[s1.schedule[k]].end = startTime]
              ELSE s1
        \* If event is completely inside the event we're trying to add
        s3 == IF (startBlock < startTime /\ startTime < endBlock)
                 /\ (startBlock < endTime /\ endTime < endBlock)
              THEN [s2 EXCEPT !.schedule = splice(s2.schedule, k)]
              ELSE s2
        \* If the event is the exact same
        s4 == IF startBlock = startTime /\ endBlock = endTime
              THEN [s3 EXCEPT !.schedule = splice(s3.schedule, k)]
              ELSE s3
    IN  \* If the event we're trying to add is completely inside the event
        IF startBlock < startTime /\ endTime < endBlock
        THEN IF k > Len(s4.schedule)
             THEN \* schedule[index] is undefined: reading .end throws
                  [s4 EXCEPT !.threw = TRUE]
             ELSE LET newBlock == s4.schedule[k]
                      oldEnd   == s4.heap[newBlock].end
                  IN  [s4 EXCEPT !.heap[newBlock].start = endTime,
                                 !.heap[newBlock].end   = oldEnd,
                                 !.schedule = Append(s4.schedule, newBlock)]
        ELSE s4

\* Array.prototype.forEach: the length is read once, absent indices are
\* skipped, an exception of the callback ends the iteration.  visited
\* records the element the callback is called with at each index.
RECURSIVE forEachFrom(_, _, _, _, _)
forEachFrom(st, k, len, startTime, endTime) ==
    IF k > len \/ st.threw THEN st
    ELSE IF k > Len(st.schedule)
         THEN forEachFrom(st, k + 1, len, startTime, endTime)
         ELSE forEachFrom(overlapBlock([st EXCEPT !.visited =
                                            Append(@, st.schedule[k])],
                                       k, startTime, endTime),
                          k + 1, len, startTime, endTime)

forEach(sched, hp, startTime, endTime) ==
    forEachFrom([schedule |-> sched, heap |-> hp, threw |-> FALSE,
                 visited |-> <<>>],
                1, Len(sched), startTime, endTime)

\* schedule.sort(function(a, b) { return aStart - bStart }): insertion of x
\* after the elements that do not start later (the sort is stable).
RECURSIVE insertSorted(_, _, _)
insertSorted(s, x, hp) ==
    IF s = <<>> THEN <<x>>
    ELSE IF hp[x].start - hp[Head(s)].start < 0
         THEN <<x>> \o s
         ELSE <<Head(s)>> \o insertSorted(Tail(s), x, hp)

RECURSIVE sortFrom(_, _, _)
sortFrom(s, acc, hp) ==
    IF s = <<>> THEN acc
    ELSE sortFrom(Tail(s), insertSorted(acc, Head(s), hp), hp)

sortSchedule_unsorted(s, hp) == s

sortSchedule(s, hp) == sortFrom(s, <<>>, hp)

\* The events an iCal feed can hold for the date: start before end.
Periods == {p \in [start : 1..MaxTime, end : 1..MaxTime] : p.start < p.end}

InitSchedule ==
    /\ parsed = <<>>
    /\ schedule = <<>>
    /\ heap = <<>>
    /\ pc = "each"
    /\ visited = <<>>

\* One iteration of _.each for an intraday event of the date: the period
\* object is created (its id and class are the position of the event in the
\* feed), the existing blocks are adjusted and the period is pushed.
MergeRecord ==
    /\ pc = "each"
    /\ Len(parsed) < MaxEvents
    /\ \E ev \in Periods :
         LET uid    == Len(parsed) + 1
             period == [start |-> ev.start, end |-> ev.end, class |-> uid]
             hp     == Append(heap, period)
             res    == forEach(schedule, hp, ev.start, ev.end)
         IN  /\ parsed' = Append(parsed, ev)
             /\ heap' = res.heap
             /\ visited' = res.visited
             /\ IF res.threw
                THEN /\ schedule' = res.schedule
                     /\ pc' = "threw"
                ELSE /\ schedule' = Append(res.schedule, uid)
                     /\ pc' = "each"
    /\ UNCHANGED <<breakVars, endVars, feedVars, apiVars, cookieVars>>

\* End of _.each: the schedule is ordered and returned.
Return ==
    /\ pc = "each"
    /\ schedule' = sortSchedule(schedule, heap)
    /\ pc' = "done"
    /\ UNCHANGED <<parsed, heap, visited>>
    /\ UNCHANGED <<breakVars, endVars, feedVars, apiVars, cookieVars>>

IdleBreaks ==
    /\ dayMin = 0 /\ dayMax = 0 /\ tz = [kind |-> "none", at |-> 0]
    /\ days = {} /\ dayPointer = 0 /\ daysOff = <<>>
    /\ ri = 0 /\ i = 0 /\ stack = <<>> /\ bpc = "idle"
    /\ rotFeed = [rot |-> {}, others |-> 0, fails |-> FALSE] /\ cb = <<>>

\* JavaScript's undefined, for an argument or variable that otherwise
\* holds a number.
Undefined == 0 - 1

\* A moment, by its fields; months count from 0 as in moment.js.
NoMoment == [year |-> 0, month |-> 0, date |-> 0, minutes |-> 0]

\* lastFridayMay and schoolEnds are not called.
IdleEnds ==
    /\ now = NoMoment /\ lfmArg = [isInt |-> FALSE, val |-> 0]
    /\ lastDay = NoMoment /\ ends = NoMoment

\* The arguments of getSchedule name the date of the events, and no all-day
\* event is in the feed.
IdleFeed ==
    /\ req = [day |-> 1, month |-> 1, year |-> 1]
    /\ current = [day |-> 1, month |-> 1, year |-> 1]
    /\ fed = 0 /\ last = <<>> /\ events = <<>> /\ scheduleDay = Undefined

\* An error argument of respond: its JavaScript type, whether it has a
\* message property that is a string, and the string (its own text for a
\* string, the message for an object).
NoError == [type |-> "undefined", hasMessage |-> FALSE, text |-> ""]

\* A request without authenticated user: req.user is undefined.
NoUser == [present |-> FALSE, user |-> "undefined", scopes |-> {}]

\* A fresh Express response: status 200, nothing sent.
FreshResponse == [status |-> 200, json |-> <<>>]

\* A request arrived; adminOverride, respond and the suggestion handler
\* are not called yet.
IdleApi ==
    /\ respArgs = [error |-> NoError, data |-> "undefined", action |-> "undefined"]
    /\ response = FreshResponse
    /\ areq = [user |-> NoUser, body |-> "undefined", query |-> "undefined"]
    /\ apiUser = "undefined"
    /\ nextCalls = 0
    /\ sugPc = "idle"
    /\ sugErr = "null"
    /\ sugRes = <<>>

\* No remember-me cookie exists and no request arrives.
IdleCookies ==
    /\ remember = {} /\ today = 0 /\ rq = <<>>

Init == InitSchedule /\ IdleBreaks /\ IdleEnds /\ IdleFeed /\ IdleApi /\ IdleCookies

Next == MergeRecord \/ Return

Spec == Init /\ [][Next]_vars

\* ===================================================================
\* scheduleFeed.getSchedule: arguments, date filter and all-day branch
\* ===================================================================

\* x || y for a number or undefined x: 0 and undefined are falsy.
orDefault(x, y) == IF x = Undefined \/ x = 0 THEN y ELSE x

\* The date whose events getSchedule selects: day = day || current.getDate(),
\* month = month || current.getMonth(), year = year || current.getFullYear().
resolveDate(args, cur) ==
    [day   |-> orDefault(args.day, cur.day),
     month |-> orDefault(args.month, cur.month),
     year  |-> orDefault(args.year, cur.year)]

\* The characters '1' to '6' and parseInt of one of them.
RotationDigits == {"1", "2", "3", "4", "5", "6"}
parseInt(c) ==
    CASE c = "1" -> 1 [] c = "2" -> 2 [] c = "3" -> 3
      [] c = "4" -> 4 [] c = "5" -> 5 [] c = "6" -> 6

\* /^Day [1-6]/.test(name); a name is the sequence of its characters.
testDay(name) ==
    /\ Len(name) >= 5
    /\ name[1] = "D" /\ name[2] = "a" /\ name[3] = "y" /\ name[4] = " "
    /\ name[5] \in RotationDigits

\* parseInt(name.match(/[1-6]/)[0]): the first character from '1' to '6'.
matchDigit(name) ==
    LET k == CHOOSE j \in 1..Len(name) :
                 /\ name[j] \in RotationDigits
                 /\ \A h \in 1..(j - 1) : name[h] \notin RotationDigits
    IN  parseInt(name[k])

\* eventDate.getSeconds() === 0 && getMinutes() === 0 && getHours() === 0
startsAtMidnight(ev) == ev.start = 0

allDayEvent_alwaysPushed(name, evs, sd) ==
    [scheduleDay |-> IF testDay(name) THEN matchDigit(name) ELSE sd,
     events      |-> Append(evs, [name |-> name])]

\* The all-day branch: the new values of scheduleDay and events for an event
\* of the given name (description and location are carried along with the
\* name and are left out).
allDayEvent(name, evs, sd) ==
    IF testDay(name)
    THEN [scheduleDay |-> matchDigit(name), events |-> evs]
    ELSE [scheduleDay |-> sd, events |-> Append(evs, [name |-> name])]

\* The summaries of the events of the feed.
Summaries ==
    { <<"D", "a", "y", " ", "3">>,
      <<"D", "a", "y", " ", "3", " ", "(", "U", "S", ")">>,
      <<"D", "a", "y", " ", "6", " ", "(", "M", "S", ")">>,
      <<"d", "a", "y", " ", "3">>,
      <<"D", "a", "y", " ", "7">>,
      <<"D", "a", "y", " ", "1", "0">>,
      <<"A", "s", "s", "e", "m", "b", "l", "y">>,
      <<"M", "a", "t", "h">> }

\* The calendar dates of the events, of the clock and of the arguments:
\* the 5th and 6th of January (month 0) and of September (month 8) 2024.
FeedDates == [day : {5, 6}, month : {0, 8}, year : {2024}]

\* The events of the feed: events that start at 00:00 and end later that
\* day or at the next midnight, under every summary, and classes during
\* the day.
FeedEvents ==
    {e \in [date : FeedDates, start : 0..(DaySlots - 1), end : 1..DaySlots,
            summary : Summaries] :
        /\ e.start < e.end
        /\ e.start = 0 => e.end \in {1, DaySlots}
        /\ e.start > 0 <=> e.summary = <<"M", "a", "t", "h">>}

\* getSchedule(day, month, year) with each argument given or left out.
InitFeed ==
    /\ req \in [day : {Undefined, 5}, month : {Undefined, 0, 8},
                year : {Undefined, 2024}]
    /\ current \in FeedDates
    /\ fed = 0
    /\ last = <<>>
    /\ events = <<>>
    /\ scheduleDay = Undefined
    /\ InitSchedule /\ IdleBreaks /\ IdleEnds /\ IdleApi /\ IdleCookies

\* One call of the _.each callback, for any event of the feed.
FeedEvent ==
    /\ pc = "each"
    /\ fed < MaxFeed
    /\ \E ev \in FeedEvents :
         /\ fed' = fed + 1
         /\ last' = <<ev>>
         /\ IF ev.date # resolveDate(req, current)
            THEN UNCHANGED <<parsed, schedule, heap, pc, visited, events,
                             scheduleDay>>
            ELSE IF startsAtMidnight(ev)
            THEN \* Check if it's an all-day event
                 /\ scheduleDay' = allDayEvent(ev.summary, events, scheduleDay).scheduleDay
                 /\ events' = allDayEvent(ev.summary, events, scheduleDay).events
                 /\ UNCHANGED <<parsed, schedule, heap, pc, visited>>
            ELSE LET uid    == Len(heap) + 1
                     period == [start |-> ev.start, end |-> ev.end,
                                class |-> ev.summary, date |-> ev.date]
                     res    == forEach(schedule, Append(heap, period),
                                       ev.start, ev.end)
                 IN  /\ parsed' = Append(parsed, [start |-> ev.start, end |-> ev.end])
                     /\ heap' = res.heap
                     /\ visited' = res.visited
                     /\ IF res.threw
                        THEN /\ schedule' = res.schedule
                             /\ pc' = "threw"
                        ELSE /\ schedule' = Append(res.schedule, uid)
                             /\ pc' = "each"
                     /\ UNCHANGED <<events, scheduleDay>>
    /\ UNCHANGED <<req, current>>
    /\ UNCHANGED <<breakVars, endVars, apiVars, cookieVars>>

NextFeed == FeedEvent \/ Return

SpecFeed == InitFeed /\ [][NextFeed]_vars

\* ===================================================================
\* getDaysOff / getBreaks
\* ===================================================================

\* A moment is modelled by its calendar date, a day number.  valueOf is the
\* millisecond value of the local midnight that starts the date: moment()
\* works in the server's time zone, so the day of a daylight-saving
\* transition lasts 25 hours (clocks set back) or 23 hours (set forward).
valueOf(d) ==
    d * DayMs + (IF tz.kind = "fall" /\ d > tz.at THEN HourMs
                 ELSE IF tz.kind = "spring" /\ d > tz.at THEN 0 - HourMs
                 ELSE 0)

isSameOrBefore_before(a, b) == valueOf(a) < valueOf(b)

\* moment#isSameOrBefore
isSameOrBefore(a, b) == valueOf(a) <= valueOf(b)

\* days[year][month + 1][date] is truthy: every rotation day 1..6 is.
hasRotation(d) == d \in days

\* An index of a JavaScript array that was never assigned.
Hole == [present |-> FALSE, items |-> <<>>]

\* stack[i] of a sparse array; i is the 0-based JavaScript index.
truthyAt(stk, idx) == idx + 1 <= Len(stk) /\ stk[idx + 1].present

\* stack[i] = []: the array grows to length i + 1, the indices in between
\* stay unassigned.
assignEmpty(stk, idx) ==
    [j \in 1..(IF idx + 1 > Len(stk) THEN idx + 1 ELSE Len(stk)) |->
        IF j = idx + 1 THEN [present |-> TRUE, items |-> <<>>]
        ELSE IF j <= Len(stk) THEN stk[j]
        ELSE Hole]

\* The callback of days.reduce in getBreaks for the element b; the result
\* is the new value of [i, stack].
groupDay(idx, stk, b) ==
    LET a    == IF truthyAt(stk, idx)
                THEN valueOf(stk[idx + 1].items[Len(stk[idx + 1].items)])
                ELSE 0
        idx2 == IF valueOf(b) - a > DayMs THEN idx + 1 ELSE idx
        stk2 == IF ~truthyAt(stk, idx2) THEN assignEmpty(stk, idx2) ELSE stk
    IN  [i |-> idx2,
         stack |-> [stk2 EXCEPT ![idx2 + 1].items = Append(@, b)]]

\* getSchedule is not running.
IdleSchedule ==
    /\ parsed = <<>> /\ schedule = <<>> /\ heap = <<>> /\ pc = "idle"
    /\ visited = <<>>

\* The clock and the time zone of the server: the window and the
\* daylight-saving transition that may fall into it.
InitBreaks ==
    /\ dayMin = FirstDay
    /\ dayMax \in dayMin..(dayMin + MaxWindow - 1)
    /\ tz \in [kind : {"fall", "spring"}, at : dayMin..dayMax]
              \cup {[kind |-> "none", at |-> 0]}
    /\ days = {}
    /\ dayPointer = 0
    /\ daysOff = <<>>
    /\ ri = 0
    /\ i = 0
    /\ stack = <<>>
    /\ bpc = "rotations"
    /\ rotFeed = [rot |-> {}, others |-> 0, fails |-> FALSE]
    /\ cb = <<>>
    /\ IdleSchedule /\ IdleEnds /\ IdleFeed /\ IdleApi /\ IdleCookies

\* What the rotation feed can supply: all-day "Day N" events on dates of the
\* window, other events, or a transport failure.
RotationFeeds ==
    [rot : SUBSET (dayMin..dayMax), others : 0..1, fails : BOOLEAN]

\* The rotation feed supplied no event at all.
emptyFeed(feed) == feed.rot = {} /\ feed.others = 0

\* portal.getDayRotations: the (err, days) it calls back with.  A transport
\* failure and an empty event list are errors; otherwise days maps the dates
\* of the rotation events to their rotation day.
getDayRotations(feed) ==
    IF feed.fails THEN [err |-> "TransportError", days |-> {}]
    ELSE IF emptyFeed(feed) THEN [err |-> "EmptyFeedError", days |-> {}]
    ELSE [err |-> "null", days |-> feed.rot]

\* A JavaScript value that is null or an array.
NullValue == [isNull |-> TRUE, arr |-> <<>>]
Array(a) == [isNull |-> FALSE, arr |-> a]

daysOffError_swallowed(err) == [err |-> "null", days |-> Array(<<>>)]

\* getDaysOff, if(err): callback(err, null)
daysOffError(err) == [err |-> err, days |-> NullValue]

breaksError_wrapped(err) == [err |-> "Error", breaks |-> NullValue]

\* getBreaks, if(err): callback(err, null)
breaksError(err) == [err |-> err, breaks |-> NullValue]

\* portal.getDayRotations calls back with the rotation days; getDaysOff
\* sets dayPointer to the first day of the window.
DayRotations ==
    /\ bpc = "rotations"
    /\ \E feed \in RotationFeeds :
         /\ getDayRotations(feed).err = "null"
         /\ rotFeed' = feed
         /\ days' = getDayRotations(feed).days
    /\ dayPointer' = dayMin
    /\ daysOff' = <<>>
    /\ bpc' = "scan"
    /\ UNCHANGED <<dayMin, dayMax, tz, ri, i, stack, cb>>
    /\ UNCHANGED <<schedVars, endVars, feedVars, apiVars, cookieVars>>

\* portal.getDayRotations calls back with an error: getDaysOff hands it to
\* its callback, the function given by getBreaks, which hands it to the
\* callback of getBreaks.
DayRotationsError ==
    /\ bpc = "rotations"
    /\ \E feed \in RotationFeeds :
         LET r == getDayRotations(feed)
             a == daysOffError(r.err)
         IN  /\ r.err # "null"
             /\ rotFeed' = feed
             /\ IF a.err # "null"
                THEN /\ cb' = Append(cb, breaksError(a.err))
                     /\ bpc' = "failed"
                     /\ daysOff' = daysOff
                ELSE /\ cb' = cb
                     /\ bpc' = "reduce"
                     /\ daysOff' = a.days.arr
    /\ i' = 0
    /\ stack' = <<>>
    /\ ri' = 0
    /\ UNCHANGED <<dayMin, dayMax, tz, days, dayPointer>>
    /\ UNCHANGED <<schedVars, endVars, feedVars, apiVars, cookieVars>>

\* One iteration of the while loop of getDaysOff.
ScanDay ==
    /\ bpc = "scan"
    /\ isSameOrBefore(dayPointer, dayMax)
    /\ daysOff' = IF ~hasRotation(dayPointer)
                  THEN Append(daysOff, dayPointer)
                  ELSE daysOff
    /\ dayPointer' = dayPointer + 1
    /\ UNCHANGED <<dayMin, dayMax, tz, days, ri, i, stack, bpc, rotFeed, cb>>
    /\ UNCHANGED <<schedVars, endVars, feedVars, apiVars, cookieVars>>

\* The loop ends: callback(null, daysOff); getBreaks starts its reduce.
DaysOffCallback ==
    /\ bpc = "scan"
    /\ ~isSameOrBefore(dayPointer, dayMax)
    /\ i' = 0
    /\ stack' = <<>>
    /\ ri' = 0
    /\ bpc' = "reduce"
    /\ UNCHANGED <<dayMin, dayMax, tz, days, dayPointer, daysOff, rotFeed, cb>>
    /\ UNCHANGED <<schedVars, endVars, feedVars, apiVars, cookieVars>>

\* One call of the reduce callback.
ReduceDay ==
    /\ bpc = "reduce"
    /\ ri < Len(daysOff)
    /\ LET r == groupDay(i, stack, daysOff[ri + 1])
       IN  i' = r.i /\ stack' = r.stack
    /\ ri' = ri + 1
    /\ UNCHANGED <<dayMin, dayMax, tz, days, dayPointer, daysOff, bpc, rotFeed, cb>>
    /\ UNCHANGED <<schedVars, endVars, feedVars, apiVars, cookieVars>>

\* callback(null, groupedDays)
BreaksCallback ==
    /\ bpc = "reduce"
    /\ ri = Len(daysOff)
    /\ bpc' = "done"
    /\ cb' = Append(cb, [err |-> "null", breaks |-> Array(stack)])
    /\ UNCHANGED <<dayMin, dayMax, tz, days, dayPointer, daysOff, ri, i, stack, rotFeed>>
    /\ UNCHANGED <<schedVars, endVars, feedVars, apiVars, cookieVars>>

NextBreaks ==
    \/ DayRotations \/ DayRotationsError
    \/ ScanDay \/ DaysOffCallback \/ ReduceDay \/ BreaksCallback

SpecBreaks == InitBreaks /\ [][NextBreaks]_vars

\* ===================================================================
\* lastFridayMay / schoolEnds
\* ===================================================================

Years == FirstYear..(FirstYear + NumYears - 1)

\* moment#day() of a date in May: 0 is Sunday, 5 Friday, 6 Saturday.
dayOfWeekMay(year, date) ==
    (year + (year \div 4) - (year \div 100) + (year \div 400) + date) % 7

\* moment#isAfter
isAfter(a, b) ==
    \/ a.year > b.year
    \/ a.year = b.year /\ a.month > b.month
    \/ a.year = b.year /\ a.month = b.month /\ a.date > b.date
    \/ a.year = b.year /\ a.month = b.month /\ a.date = b.date
       /\ a.minutes > b.minutes

lastFridayMay_staleDay(arg, cur) ==
    LET year   == IF ~arg.isInt THEN cur.year ELSE arg.val
        day0   == dayOfWeekMay(year, 31)
        date6  == IF day0 = 5 \/ day0 = 6 THEN 30 ELSE 31
    IN  [year |-> year, month |-> 4, date |-> date6 - (day0 + 2),
         minutes |-> 11 * 60 + 30]

\* lastFridayMay(year) called at the instant cur.  lastDayOfMay is one
\* mutable moment: the switch has no break, so case 5 runs on into case 6,
\* and both run on into default, where day() is read again after the
\* subtraction of case 6.
lastFridayMay(arg, cur) ==
    LET year   == IF ~arg.isInt THEN cur.year ELSE arg.val
        date0  == 31
        day0   == dayOfWeekMay(year, date0)
        \* case 5: lastDay = lastDayOfMay (the same object)
        date5  == date0
        \* case 6: lastDayOfMay.subtract(1, 'day')
        date6  == IF day0 = 5 \/ day0 = 6 THEN date5 - 1 ELSE date5
        \* default: lastDayOfMay.subtract(lastDayOfMay.day() + 2, 'days')
        dateD  == date6 - (dayOfWeekMay(year, date6) + 2)
    IN  [year |-> year, month |-> 4, date |-> dateD, minutes |-> 11 * 60 + 30]

schoolEnds_thisYear(cur) == lastFridayMay([isInt |-> FALSE, val |-> 0], cur)

\* schoolEnds() called at the instant cur.
schoolEnds(cur) ==
    LET lastDayThisYear == lastFridayMay([isInt |-> FALSE, val |-> 0], cur)
    IN  IF isAfter(lastDayThisYear, cur)
        THEN lastDayThisYear
        ELSE lastFridayMay([isInt |-> TRUE, val |-> cur.year + 1], cur)

\* The instants the clock is read at: around 11:30 on the days of the second
\* half of May, and a day in April and in June.
Clocks ==
    {c \in [year : Years, month : {3, 4, 5}, date : 15..31,
            minutes : {11 * 60 + 29, 11 * 60 + 30, 11 * 60 + 31}] :
        c.month # 4 => c.date = 15}

InitEnds ==
    /\ now \in Clocks
    /\ lfmArg = [isInt |-> FALSE, val |-> 0]
    /\ lastDay = NoMoment
    /\ ends = NoMoment
    /\ IdleSchedule /\ IdleBreaks /\ IdleFeed /\ IdleApi /\ IdleCookies

\* A call of lastFridayMay, with a year or without a usable one.
CallLastFridayMay ==
    /\ \E arg \in [isInt : {TRUE}, val : Years] \cup {[isInt |-> FALSE, val |-> 0]} :
         /\ lfmArg' = arg
         /\ lastDay' = lastFridayMay(arg, now)
    /\ UNCHANGED <<now, ends>>
    /\ UNCHANGED <<schedVars, breakVars, feedVars, apiVars, cookieVars>>

\* A call of schoolEnds.
CallSchoolEnds ==
    /\ ends' = schoolEnds(now)
    /\ UNCHANGED <<now, lfmArg, lastDay>>
    /\ UNCHANGED <<schedVars, breakVars, feedVars, apiVars, cookieVars>>

NextEnds == CallLastFridayMay \/ CallSchoolEnds

SpecEnds == InitEnds /\ [][NextEnds]_vars

\* ===================================================================
\* api.respond / api.adminOverride / POST /suggestion/send
\* ===================================================================

\* const ACTIONS (the name is a reserved word here)
ValidActions == {"LOGIN_EXPIRED", "NOT_LOGGED_IN", "UNAUTHORIZED"}

\* The actions that set the HTTP status 401.
UnauthorizedActions == {"LOGIN_EXPIRED", "UNAUTHORIZED", "NOT_LOGGED_IN"}

\* A string or null, as the variable err of respond holds it.
NullString == [isNull |-> TRUE, text |-> ""]
String(t) == [isNull |-> FALSE, text |-> t]

\* if (err): null and the empty string are falsy.
truthy(err) == ~err.isNull /\ err.text # ""

errorMessage_stringOnly(error) ==
    IF error.type = "string" THEN String(error.text) ELSE NullString

\* The variable err of respond after the two type checks: the message of an
\* object whose message is a string, the string itself, null otherwise.
errorMessage(error) ==
    LET err1 == IF error.type = "object" /\ error.hasMessage
                THEN String(error.text) ELSE NullString
    IN  IF error.type = "string" THEN String(error.text) ELSE err1

\* respond(res, error = null, data = {}, action = null) on a response whose
\* status is status0: the status afterwards and the body given to res.json.
respond(status0, error, data, action) ==
    LET error1  == IF error.type = "undefined"
                   THEN [type |-> "null", hasMessage |-> FALSE, text |-> ""]
                   ELSE error
        data1   == IF data = "undefined" THEN "{}" ELSE data
        action1 == IF action = "undefined" THEN "null" ELSE action
        err     == errorMessage(error1)
        \* If there's an error, data should be null
        data2   == IF ~err.isNull THEN "null" ELSE data1
        \* Make sure it's a valid action
        action2 == IF action1 \notin ValidActions THEN "null" ELSE action1
        status1 == IF truthy(err) THEN 500 ELSE status0
        status2 == IF action2 \in UnauthorizedActions THEN 401 ELSE status1
    IN  [status |-> status2,
         body   |-> [error |-> err, action |-> action2, data |-> data2]]

\* The errors handed to respond: nothing, null, a string (also the empty
\* one), an Error (an object with a message, also the empty one) and an
\* object without a message that is a string.
Errors ==
    [type : {"undefined", "null"}, hasMessage : {FALSE}, text : {""}]
    \cup [type : {"string"}, hasMessage : {FALSE}, text : {"", "Invalid username"}]
    \cup [type : {"object"}, hasMessage : {TRUE}, text : {"", "Invalid username"}]
    \cup [type : {"object"}, hasMessage : {FALSE}, text : {""}]

\* The data and the actions handed to respond.
Datas == {"undefined", "null", "{}", "{ id: 7 }"}
ActionArgs == ValidActions \cup {"undefined", "null", "REFRESH"}

\* The route the request reaches after the middleware calls api.respond on
\* the response of the request.
Respond ==
    /\ nextCalls = 1 /\ sugPc = "idle" /\ response.json = <<>>
    /\ \E error \in Errors, data \in Datas, action \in ActionArgs :
         LET r == respond(FreshResponse.status, error, data, action)
         IN  /\ respArgs' = [error |-> error, data |-> data, action |-> action]
             /\ response' = [status |-> r.status, json |-> <<r.body>>]
    /\ UNCHANGED <<areq, apiUser, nextCalls, sugPc, sugErr, sugRes>>
    /\ UNCHANGED <<schedVars, breakVars, endVars, feedVars, cookieVars>>

\* Object.keys of an object given by its properties.
ObjectKeys(obj) == {prop.key : prop \in obj}

\* The truthiness of a value that is undefined or a string.
truthyString(x) == x \notin {"undefined", ""}

adminOverride_anyUser(r) ==
    IF r.user.present
    THEN IF truthyString(r.body) THEN r.body
         ELSE IF truthyString(r.query) THEN r.query
         ELSE r.user.user
    ELSE "null"

\* The value of req.apiUser when adminOverride calls next().
adminOverride(r) ==
    IF r.user.present
    THEN IF "admin" \in ObjectKeys(r.user.scopes)
         THEN IF truthyString(r.body) THEN r.body
              ELSE IF truthyString(r.query) THEN r.query
              ELSE r.user.user
         ELSE r.user.user
    ELSE "null"

\* The scopes of a user: no scope, another scope, the admin scope (a key
\* of the object, whatever its value).
Scopes ==
    { {}, {[key |-> "pro", value |-> TRUE]},
      {[key |-> "admin", value |-> TRUE]},
      {[key |-> "admin", value |-> FALSE]},
      {[key |-> "admin", value |-> TRUE], [key |-> "pro", value |-> TRUE]} }

\* The requests handed to adminOverride: with or without authenticated
\* user, behalfOf absent, empty or given in the body and in the query.
AdminRequests ==
    [user  : {NoUser} \cup [present : {TRUE}, user : {"alice"}, scopes : Scopes],
     body  : {"undefined", "", "bob"},
     query : {"undefined", "", "carol"}]

\* The middleware adminOverride runs for the request.
AdminOverride ==
    /\ nextCalls = 0
    /\ \E r \in AdminRequests :
         /\ areq' = r
         /\ apiUser' = adminOverride(r)
    /\ nextCalls' = 1
    /\ UNCHANGED <<respArgs, response, sugPc, sugErr, sugRes>>
    /\ UNCHANGED <<schedVars, breakVars, endVars, feedVars, cookieVars>>

\* The body res.json is called with by the suggestion handler: null or
\* { error: message }.
JsonNull == [isNull |-> TRUE, error |-> ""]
JsonError(message) == [isNull |-> FALSE, error |-> message]

suggestionCallback_returns(err) ==
    IF err # "null" THEN << JsonError(err) >> ELSE << JsonNull >>

\* function(err) of the suggestion handler: the calls of res.json it makes;
\* err is null or the message of the error.
suggestionCallback(err) ==
    (IF err # "null" THEN << JsonError(err) >> ELSE <<>>) \o << JsonNull >>

\* The route the request reaches is POST /suggestion/send: the handler
\* reads req.user.user, which throws when the request has no user, and
\* calls admins.sendEmail.
PostSuggestion ==
    /\ nextCalls = 1 /\ sugPc = "idle" /\ response.json = <<>>
    /\ sugPc' = IF areq.user.present THEN "pending" ELSE "threw"
    /\ sugRes' = <<>>
    /\ UNCHANGED <<respArgs, response, areq, apiUser, nextCalls, sugErr>>
    /\ UNCHANGED <<schedVars, breakVars, endVars, feedVars, cookieVars>>

\* admins.sendEmail calls back, with an error or without.
SendEmailCallback ==
    /\ sugPc = "pending"
    /\ \E err \in {"null", "Invalid email(s)!", "There was a problem sending the mail!"} :
         /\ sugErr' = err
         /\ sugRes' = suggestionCallback(err)
    /\ sugPc' = "done"
    /\ UNCHANGED <<respArgs, response, areq, apiUser, nextCalls>>
    /\ UNCHANGED <<schedVars, breakVars, endVars, feedVars, cookieVars>>

InitApi ==
    /\ IdleApi
    /\ IdleSchedule /\ IdleBreaks /\ IdleEnds /\ IdleFeed /\ IdleCookies

NextApi == Respond \/ AdminOverride \/ PostSuggestion \/ SendEmailCallback

SpecApi == InitApi /\ [][NextApi]_vars

\* ===================================================================
\* compareCookie / generateToken / remember
\* ===================================================================

\* JavaScript's null in a place that otherwise holds a number.
Null == 0 - 2

\* cryptoUtils.shaHash: the hash of a token; distinct tokens have distinct
\* hashes.
shaHash(token) == [sha |-> token]

\* cryptoUtils.safeCompareSHA(token, dbToken): the token hashes to dbToken.
safeCompareSHA(token, dbToken) == shaHash(token) = dbToken

\* rememberdata.find({ selector: selector }).toArray: the array of the
\* documents with that selector, empty when there is none.
find(coll, selector) ==
    LET docs == {d \in coll : d.selector = selector}
    IN  Array(IF docs = {} THEN <<>> ELSE << CHOOSE d \in docs : TRUE >>)

\* rememberdata.update({ selector: selector }, document, { upsert: true })
update(coll, selector, document) ==
    {d \in coll : d.selector # selector} \cup {document}

\* The selector of the cookie createCookie issued to alice, a selector
\* without document, the token of that cookie, a token never issued, and
\* the instant the cookie expires at.
Selector == "5f3a"
UnknownSelector == "0000"
FirstToken == 1
WrongToken == 0
CookieExpires == 2

\* No rememberme cookie is set on the response.
NoCookie == [selector |-> "undefined", token |-> Undefined, expires |-> Undefined]

\* The tokens handed out so far: by createCookie and by generateToken.
Issued ==
    {FirstToken} \cup {rq[k].newToken : k \in {j \in 1..Len(rq) : rq[j].newToken # Undefined}}

\* tokenBuf.toString('hex') of crypto.randomBytes(32): a token that was
\* never handed out before.
randomToken == 1 + Cardinality(Issued)

\* function(err, user, newToken, expires) given to compareCookie by the
\* middleware; q is the request.
rememberCallback(q, err, user, newToken, expires) ==
    LET q1 == [q EXCEPT !.cb = Append(@, [err |-> err, user |-> user,
                                          token |-> newToken, expires |-> expires])]
    IN  IF err # "null"
        THEN [q1 EXCEPT !.cleared = TRUE, !.nexts = @ + 1, !.pc = "done"]
        ELSE [q1 EXCEPT !.session = user,
                        !.cookieSet = [selector |-> q.selector, token |-> newToken,
                                       expires |-> expires],
                        !.nexts = @ + 1, !.pc = "done"]

\* The middleware up to the first asynchronous call: session is
\* req.session.user, cookie is req.cookies.rememberme split at ':' (token is
\* undefined when it has no ':').
rememberMiddleware(session, cookie) ==
    LET q == [pc |-> "new", hadUser |-> session # "undefined",
              cookieSent |-> cookie.sent, session |-> session,
              selector |-> cookie.selector, token |-> cookie.token,
              compared |-> FALSE, cb |-> <<>>, nexts |-> 0, cleared |-> FALSE,
              cookieSet |-> NoCookie,
              user |-> "undefined", expires |-> Undefined, newToken |-> Undefined]
    IN  IF session # "undefined" \/ ~cookie.sent
        THEN [q EXCEPT !.nexts = 1, !.pc = "done"]
        ELSE \* compareCookie(db, selector, token, ...)
             IF cookie.token = Undefined
             THEN rememberCallback([q EXCEPT !.compared = TRUE],
                                   "Invalid token!", "null", Null, Null)
             ELSE [q EXCEPT !.compared = TRUE, !.pc = "find"]

\* The callback of toArray in compareCookie, for the collection coll at the
\* instant todayTime; dbErr is its argument err.
compareCookieFound(q, coll, dbErr, todayTime) ==
    LET doc == find(coll, q.selector)
    IN  IF dbErr
        THEN rememberCallback(q, "There was a problem querying the database!",
                              "null", Null, Null)
        ELSE IF doc.isNull
        THEN rememberCallback(q, "Invalid selector!", "null", Null, Null)
        ELSE IF doc.arr = <<>>
        THEN \* doc[0] is undefined: cookie['user'] throws a TypeError
             [q EXCEPT !.pc = "threw"]
        ELSE LET cookie == doc.arr[1]
             IN  IF todayTime > cookie.expires
                 THEN rememberCallback(q, "Cookie has expired!", "null", Null, Null)
                 ELSE IF safeCompareSHA(q.token, cookie.token)
                 THEN \* generateToken(db, user, selector, expires, ...)
                      [q EXCEPT !.user = cookie.user, !.expires = cookie.expires,
                                !.pc = "random"]
                 ELSE rememberCallback(q, "Invalid hash!", "null", Null, Null)

\* The callback of crypto.randomBytes in generateToken.
generateTokenRandom(q, err, token) ==
    IF err
    THEN rememberCallback(q, "There was a problem generating the token!",
                          "null", Null, Null)
    ELSE [q EXCEPT !.newToken = token, !.pc = "update"]

\* The document generateToken writes.
tokenDocument(q) ==
    [user |-> q.user, selector |-> q.selector, token |-> shaHash(q.newToken),
     expires |-> q.expires]

\* The callback of rememberdata.update in generateToken, and through it the
\* callback of generateToken in compareCookie.
generateTokenUpdated(q, err) ==
    IF err
    THEN rememberCallback(q, "There was a problem updating the database!",
                          "null", Null, Null)
    ELSE rememberCallback(q, "null", q.user, q.newToken, q.expires)

\* The rememberme cookies a request can carry: none, the known or an
\* unknown selector with a token that was handed out or never was, and a
\* cookie without ':'.
Cookies ==
    {[sent |-> FALSE, selector |-> "undefined", token |-> Undefined]}
    \cup [sent : {TRUE}, selector : {Selector},
          token : Issued \cup {WrongToken, Undefined}]
    \cup {[sent |-> TRUE, selector |-> UnknownSelector, token |-> FirstToken]}

\* createCookie has stored alice's cookie; the clock is before, at or after
\* the instant it expires.
InitCookies ==
    /\ remember = {[user |-> "alice", selector |-> Selector,
                    token |-> shaHash(FirstToken), expires |-> CookieExpires]}
    /\ today \in (CookieExpires - 1)..(CookieExpires + 1)
    /\ rq = <<>>
    /\ IdleSchedule /\ IdleBreaks /\ IdleEnds /\ IdleFeed /\ IdleApi

\* A request reaches the middleware.
Arrive ==
    /\ Len(rq) < MaxRequests
    /\ \E session \in {"undefined", "alice"}, cookie \in Cookies :
         rq' = Append(rq, rememberMiddleware(session, cookie))
    /\ UNCHANGED <<remember, today>>
    /\ UNCHANGED <<schedVars, breakVars, endVars, feedVars, apiVars>>

\* The find of a request calls back.
FindCallback ==
    /\ \E r \in 1..Len(rq), dbErr \in BOOLEAN :
         /\ rq[r].pc = "find"
         /\ rq' = [rq EXCEPT ![r] = compareCookieFound(@, remember, dbErr, today)]
    /\ UNCHANGED <<remember, today>>
    /\ UNCHANGED <<schedVars, breakVars, endVars, feedVars, apiVars>>

\* crypto.randomBytes of a request calls back.
RandomBytesCallback ==
    /\ \E r \in 1..Len(rq), err \in BOOLEAN :
         /\ rq[r].pc = "random"
         /\ rq' = [rq EXCEPT ![r] = generateTokenRandom(@, err, randomToken)]
    /\ UNCHANGED <<remember, today>>
    /\ UNCHANGED <<schedVars, breakVars, endVars, feedVars, apiVars>>

\* The update of a request is applied, or fails, and calls back.
UpdateCallback ==
    /\ \E r \in 1..Len(rq), err \in BOOLEAN :
         /\ rq[r].pc = "update"
         /\ remember' = IF err THEN remember
                        ELSE update(remember, rq[r].selector, tokenDocument(rq[r]))
         /\ rq' = [rq EXCEPT ![r] = generateTokenUpdated(@, err)]
    /\ UNCHANGED today
    /\ UNCHANGED <<schedVars, breakVars, endVars, feedVars, apiVars>>

NextCookies == Arrive \/ FindCallback \/ RandomBytesCallback \/ UpdateCallback

SpecCookies == InitCookies /\ [][NextCookies]_vars

\* ===================================================================
\* Properties of getSchedule
\* ===================================================================

\* The schedule as the caller sees it: the fields of the object at each index.
Blocks == [k \in 1..Len(schedule) |-> heap[schedule[k]]]

\* The event handed to the callback last, and its position in the feed.
LastUid == Len(parsed)

\* C1: in the returned schedule no two blocks overlap: of any two distinct
\* entries one ends at or before the instant the other starts.
C1_NoOverlap ==
    pc = "done" =>
        \A a, b \in 1..Len(schedule) :
            a # b => \/ Blocks[a].end <= Blocks[b].start
                     \/ Blocks[b].end <= Blocks[a].start

\* C2: full containment.  When the feed holds a block B and then a record N
\* strictly inside it (bs < ns, ne < be), getSchedule completes and returns
\* exactly [bs,ns) of B, [ns,ne) of N, [ne,be) of B.
C2_FullContainment ==
    (/\ Len(parsed) = 2
     /\ parsed[1].start < parsed[2].start
     /\ parsed[2].end < parsed[1].end
     /\ pc # "each")
    => /\ pc = "done"
       /\ Blocks = << [start |-> parsed[1].start, end |-> parsed[2].start, class |-> 1],
                      [start |-> parsed[2].start, end |-> parsed[2].end,   class |-> 2],
                      [start |-> parsed[2].end,   end |-> parsed[1].end,   class |-> 1] >>

\* C3: tail overlap.  Merging a record N = [ns,ne) truncates every block
\* B = [bs,be) with bs < ns < be <= ne to [bs,ns), and appends N unchanged.
C3_TailOverlap ==
    [][ (pc = "each" /\ Len(parsed') = Len(parsed) + 1) =>
          \A k \in 1..Len(schedule) :
              LET B == heap[schedule[k]]
                  N == parsed'[Len(parsed')]
              IN  (B.start < N.start /\ N.start < B.end /\ B.end <= N.end) =>
                      /\ pc' = "each"
                      /\ schedule[k] \in Range(schedule')
                      /\ heap'[schedule[k]].start = B.start
                      /\ heap'[schedule[k]].end = N.start
                      /\ heap'[schedule'[Len(schedule')]] =
                             [start |-> N.start, end |-> N.end, class |-> Len(parsed')]
      ]_vars

\* C4: head overlap.  Merging a record N = [ns,ne) truncates every block
\* B = [bs,be) with ns <= bs < ne < be to [ne,be), and appends N unchanged.
C4_HeadOverlap ==
    [][ (pc = "each" /\ Len(parsed') = Len(parsed) + 1) =>
          \A k \in 1..Len(schedule) :
              LET B == heap[schedule[k]]
                  N == parsed'[Len(parsed')]
              IN  (N.start <= B.start /\ B.start < N.end /\ N.end < B.end) =>
                      /\ pc' = "each"
                      /\ schedule[k] \in Range(schedule')
                      /\ heap'[schedule[k]].start = N.end
                      /\ heap'[schedule[k]].end = B.end
                      /\ heap'[schedule'[Len(schedule')]] =
                             [start |-> N.start, end |-> N.end, class |-> Len(parsed')]
      ]_vars

\* C5: supersession.  Merging a record N removes every block B that lies
\* inside N (ns <= bs, be <= ne, not the same interval); N is appended.
C5_Supersession ==
    [][ (pc = "each" /\ Len(parsed') = Len(parsed) + 1) =>
          \A k \in 1..Len(schedule) :
              LET B == heap[schedule[k]]
                  N == parsed'[Len(parsed')]
              IN  (/\ B.start < B.end
                   /\ N.start <= B.start /\ B.end <= N.end
                   /\ ~(N.start = B.start /\ N.end = B.end)) =>
                      /\ pc' = "each"
                      /\ schedule[k] \notin Range(schedule')
                      /\ schedule'[Len(schedule')] = Len(parsed')
      ]_vars

\* C6: identical intervals.  When a record N with the start and end of an
\* existing block is merged, the schedule afterwards holds exactly one block
\* with that interval, and it is N's.
C6_Identical ==
    [][ (pc = "each" /\ Len(parsed') = Len(parsed) + 1) =>
          LET N == parsed'[Len(parsed')]
          IN  (\E k \in 1..Len(schedule) :
                   /\ heap[schedule[k]].start = N.start
                   /\ heap[schedule[k]].end = N.end) =>
                  /\ pc' = "each"
                  /\ \A j \in 1..Len(schedule') :
                         (/\ heap'[schedule'[j]].start = N.start
                          /\ heap'[schedule'[j]].end = N.end)
                         <=> j = Len(schedule')
                  /\ schedule'[Len(schedule')] = Len(parsed')
      ]_vars

\* C7: every record handed to the callback is appended, and the record
\* processed last is in the schedule with exactly its own start and end.
C7_LastRecordKept ==
    parsed # <<>> =>
        /\ pc # "threw"
        /\ \E k \in 1..Len(schedule) :
               /\ schedule[k] = LastUid
               /\ Blocks[k] = [start |-> parsed[LastUid].start,
                               end   |-> parsed[LastUid].end,
                               class |-> LastUid]

\* C8: the returned schedule is sorted ascending by block start: of two
\* consecutive entries the first does not start later than the second.
C8_SortedByStart ==
    pc = "done" =>
        \A k \in 1..(Len(schedule) - 1) : Blocks[k].start <= Blocks[k + 1].start

\* A returned schedule of three or more entries in which a record of the
\* feed was moved in front of an earlier one.
C8_Witness ==
    /\ pc = "done"
    /\ Len(schedule) >= 3
    /\ \E a, b \in 1..Len(schedule) :
           a < b /\ schedule[a] > schedule[b] /\ Blocks[a].start < Blocks[b].start

\* C25: given input records that each have start < end, every block of the
\* schedule returned by getSchedule has start strictly before end, after
\* any sequence of truncations and splits.
C25_BlocksWellFormed ==
    pc = "done" =>
        \A k \in 1..Len(schedule) : Blocks[k].start < Blocks[k].end

\* C26: while one incoming record is merged, every block that was in the
\* schedule before the pass is compared against the incoming record exactly
\* once, also when an earlier block is removed or a split block is appended
\* during the pass: the callback is called with the blocks of the schedule
\* as it was, each once and in order, and a block is only given bounds of
\* its own or of the incoming record.
C26_EachBlockComparedOnce ==
    [][ (pc = "each" /\ Len(parsed') = Len(parsed) + 1) =>
          LET N == parsed'[Len(parsed')]
          IN  /\ visited' = schedule
              /\ \A b \in Range(schedule) :
                     /\ heap'[b].start \in {heap[b].start, N.start, N.end}
                     /\ heap'[b].end \in {heap[b].end, N.start, N.end}
      ]_vars

\* ===================================================================
\* Properties of getBreaks
\* ===================================================================

\* The groups passed to the callback, in order, unassigned indices left out.
RECURSIVE flattenFrom(_, _)
flattenFrom(stk, k) ==
    IF k > Len(stk) THEN <<>>
    ELSE (IF stk[k].present THEN stk[k].items ELSE <<>>) \o flattenFrom(stk, k + 1)

Flattened == flattenFrom(stack, 1)

\* The dates of the window without rotation day.
OffDates == {d \in dayMin..dayMax : d \notin days}

Groups == SelectSeq(stack, LAMBDA g : g.present)

\* C10: consecutive dates inside one group are exactly one calendar day
\* apart, and the last date of a group and the first date of the next group
\* are more than one calendar day apart.
C10_GroupsAreMaximalRuns ==
    bpc = "done" =>
        /\ \A g \in 1..Len(Groups) :
               \A k \in 1..(Len(Groups[g].items) - 1) :
                   Groups[g].items[k + 1] = Groups[g].items[k] + 1
        /\ \A g \in 1..(Len(Groups) - 1) :
               Groups[g + 1].items[1] > Groups[g].items[Len(Groups[g].items)] + 1

\* The number of maximal runs of consecutive dates without rotation day.
NumRuns == Cardinality({d \in OffDates : (d - 1) \notin OffDates})

\* C11: the list passed to the callback consists only of break groups: every
\* index from 0 to length-1 holds a non-empty list of dates, and the length
\* is the number of maximal runs of off days.
C11_OnlyGroups ==
    bpc = "done" =>
        /\ \A k \in 1..Len(stack) : stack[k].present /\ stack[k].items # <<>>
        /\ Len(stack) = NumRuns

C19_ErrorPropagates ==
    /\ Len(cb) <= 1
    /\ bpc \notin {"failed", "done"} => cb = <<>>
    /\ bpc = "failed" =>
           cb = << [err |-> getDayRotations(rotFeed).err, breaks |-> NullValue] >>
    /\ bpc = "done" =>
           /\ getDayRotations(rotFeed).err = "null"
           /\ cb = << [err |-> "null", breaks |-> Array(stack)] >>

\* The fetch of the rotation feed failed and the caller received that error.
C19_Witness ==
    /\ bpc = "failed"
    /\ rotFeed.fails
    /\ cb = << [err |-> "TransportError", breaks |-> NullValue] >>

\* ===================================================================
\* Properties of lastFridayMay / schoolEnds
\* ===================================================================

\* The last Friday of May of a year, at 11:30.
LastFridayOfMay(year) ==
    [year |-> year, month |-> 4,
     date |-> 31 - ((dayOfWeekMay(year, 31) + 2) % 7),
     minutes |-> 11 * 60 + 30]

\* C12: lastFridayMay(year) returns the last Friday of May of that year: a
\* Friday in May at most 6 days before May 31.
C12_LastFridayOfMay ==
    (lastDay # NoMoment /\ lfmArg.isInt) =>
        /\ lastDay.year = lfmArg.val
        /\ lastDay.month = 4
        /\ dayOfWeekMay(lastDay.year, lastDay.date) = 5
        /\ lastDay.date + 7 > 31

\* C13: schoolEnds returns the current year's last Friday of May when that
\* instant is after the current time, and next year's otherwise.
C13_SchoolEnds ==
    ends # NoMoment =>
        ends = IF isAfter(LastFridayOfMay(now.year), now)
               THEN LastFridayOfMay(now.year)
               ELSE LastFridayOfMay(now.year + 1)

\* C27: for every year and every weekday May 31 can fall on, lastFridayMay
\* returns a date whose weekday is Friday, whose month is May of the
\* requested year and whose time of day is 11:30; an argument that is no
\* integer, or is missing, is replaced by the current year.
C27_FridayInMay ==
    lastDay # NoMoment =>
        /\ lastDay.year = (IF lfmArg.isInt THEN lfmArg.val ELSE now.year)
        /\ lastDay.month = 4
        /\ lastDay.date \in 1..31
        /\ dayOfWeekMay(lastDay.year, lastDay.date) = 5
        /\ lastDay.minutes = 11 * 60 + 30

\* A call for a year other than the current one whose May 31 is a Friday
\* or a Saturday: the cases of the switch that run on into the default.
C27_Witness ==
    /\ lastDay # NoMoment
    /\ lfmArg.isInt /\ lfmArg.val # now.year
    /\ dayOfWeekMay(lfmArg.val, 31) \in {5, 6}
    /\ lastDay.year = lfmArg.val

\* C28: for every current time, the date returned by schoolEnds is strictly
\* after the current time and lies in May of the current year or of the
\* next year.
C28_EndsInFuture ==
    ends # NoMoment =>
        /\ isAfter(ends, now)
        /\ ends.month = 4
        /\ ends.date \in 1..31
        /\ ends.year \in {now.year, now.year + 1}

\* schoolEnds was called in May or June after this year's date had passed
\* and returned a date of the next year.
C28_Witness ==
    /\ ends # NoMoment
    /\ now.month \in {4, 5}
    /\ ends.year = now.year + 1

\* ===================================================================
\* Properties of getSchedule: date, rotation day and announcements
\* ===================================================================

\* The date the caller asks for: the arguments, today where one is left out.
RequestedDate ==
    [day   |-> IF req.day = Undefined THEN current.day ELSE req.day,
     month |-> IF req.month = Undefined THEN current.month ELSE req.month,
     year  |-> IF req.year = Undefined THEN current.year ELSE req.year]

\* The step hands one more event to the callback.
EventStep == fed' = fed + 1

\* The event of the step is one getSchedule selects for its date.
Selected(ev) == ev.date = resolveDate(req, current)

\* A title that is exactly 'Day d', 'Day d (US)' or 'Day d (MS)', d in 1..6.
ExactRotationTitle(name) ==
    /\ testDay(name)
    /\ \/ Len(name) = 5
       \/ /\ Len(name) = 10
          /\ name[6] = " " /\ name[7] = "(" /\ name[8] \in {"U", "M"}
          /\ name[9] = "S" /\ name[10] = ")"

\* C14: an all-day record sets the rotation day only if its title is exactly
\* 'Day d', 'Day d (US)' or 'Day d (MS)'; a record with any other title
\* leaves the rotation day alone and is added to the announcements.
C14_ExactTitle ==
    [][ EventStep =>
          LET ev == last'[1]
          IN  (Selected(ev) /\ startsAtMidnight(ev)
               /\ ~ExactRotationTitle(ev.summary)) =>
                  /\ scheduleDay' = scheduleDay
                  /\ events' = Append(events, [name |-> ev.summary])
      ]_vars

\* C15: the rotation day of the requested date D is the digit in the title
\* of an all-day rotation record of D: such a record sets it to its digit,
\* and no other record changes it.
C15_RotationDayOfDate ==
    [][ EventStep =>
          LET ev == last'[1]
          IN  IF /\ ev.date = RequestedDate
                 /\ startsAtMidnight(ev)
                 /\ testDay(ev.summary)
              THEN scheduleDay' = matchDigit(ev.summary)
              ELSE scheduleDay' = scheduleDay
      ]_vars

AllDay(ev) == ev.start = 0 /\ ev.end = DaySlots

\* C18: a record is treated as all-day iff it starts and ends at midnight;
\* every other record, also one that starts at 00:00 and ends later that
\* day, becomes a schedule block and no announcement.
C18_AllDayClassification ==
    [][ EventStep =>
          LET ev == last'[1]
          IN  /\ (Selected(ev) /\ ~AllDay(ev)) =>
                     /\ pc' = "each" =>
                            /\ Len(schedule') >= 1
                            /\ heap'[schedule'[Len(schedule')]] =
                                   [start |-> ev.start, end |-> ev.end,
                                    class |-> ev.summary, date |-> ev.date]
                     /\ events' = events /\ scheduleDay' = scheduleDay
              /\ (Selected(ev) /\ AllDay(ev)) => UNCHANGED <<schedule, heap>>
      ]_vars

\* C20: for explicitly supplied day, month and year the result depends on the
\* events of that date only: the date resolved is the same at every current
\* time, and only an event of the requested date changes the rotation day,
\* the blocks or the announcements.
C20_PureInDate ==
    [][ (EventStep /\ req.day # Undefined /\ req.month # Undefined
                   /\ req.year # Undefined) =>
          /\ \A c \in FeedDates : resolveDate(req, c) = resolveDate(req, current)
          /\ last'[1].date # [day |-> req.day, month |-> req.month, year |-> req.year]
                 => UNCHANGED <<schedule, heap, events, scheduleDay>>
      ]_vars

\* ===================================================================
\* Properties of api.respond, api.adminOverride and the suggestion handler
\* ===================================================================

\* respond was called with an error: a non-empty string or an object.
CalledWithError ==
    \/ respArgs.error.type = "object"
    \/ respArgs.error.type = "string" /\ respArgs.error.text # ""

\* C21: whenever respond is called with an error (a non-empty string, an
\* Error, or any other non-null error object), the body sent has data = null
\* and a non-null error, and the status is 500, or 401 for the actions
\* LOGIN_EXPIRED, UNAUTHORIZED and NOT_LOGGED_IN; with error = null the body
\* has error = null and the supplied data.
C21_ErrorResponse ==
    response.json # <<>> =>
        /\ Len(response.json) = 1
        /\ CalledWithError =>
               /\ response.json[1].data = "null"
               /\ ~response.json[1].error.isNull
               /\ response.status = IF respArgs.action \in UnauthorizedActions
                               THEN 401 ELSE 500
        /\ (respArgs.error.type = "null" /\ respArgs.data # "undefined") =>
               /\ response.json[1].error.isNull
               /\ response.json[1].data = respArgs.data

\* The user of the request holds the admin scope.
IsAdmin == areq.user.present /\ "admin" \in ObjectKeys(areq.user.scopes)

\* C22: after adminOverride, req.apiUser is null iff the request has no
\* authenticated user; it is a supplied behalfOf (the body's before the
\* query's) only for a user whose scopes include 'admin'; for every other
\* user it is req.user.user whatever behalfOf is supplied; next() is called
\* exactly once.
C22_AdminOverride ==
    nextCalls # 0 =>
        /\ nextCalls = 1
        /\ apiUser = "null" <=> ~areq.user.present
        /\ (areq.user.present /\ ~IsAdmin) => apiUser = areq.user.user
        /\ (areq.user.present /\ apiUser # areq.user.user) =>
               /\ IsAdmin
               /\ apiUser = IF truthyString(areq.body) THEN areq.body
                            ELSE areq.query
        /\ IsAdmin =>
               apiUser = IF truthyString(areq.body) THEN areq.body
                         ELSE IF truthyString(areq.query) THEN areq.query
                         ELSE areq.user.user

\* A user without the admin scope supplied behalfOf in body and query and
\* acts as themself.
C22_Witness ==
    /\ nextCalls = 1
    /\ areq.user.present /\ ~IsAdmin
    /\ areq.body = "bob" /\ areq.query = "carol"
    /\ apiUser = "alice"

\* C30: the POST /suggestion/send handler sends exactly one JSON response
\* per request, the error message when admins.sendEmail fails and null when
\* it succeeds, and never writes a second response after the first.
C30_OneResponse ==
    sugPc = "done" =>
        /\ Len(sugRes) = 1
        /\ sugRes[1] = IF sugErr # "null" THEN JsonError(sugErr) ELSE JsonNull

\* ===================================================================
\* Properties of compareCookie and the remember middleware
\* ===================================================================

\* The documents of the collection with the selector of request r.
Stored(r) == {d \in remember : d.selector = rq[r].selector}

\* The step is the one in which the find of request r calls back.
FoundStep(r) == rq[r].pc = "find" /\ rq'[r].pc # "find"

\* compareCookie called back with an error and null user, token, expires.
FailureCallback(c) ==
    c.err # "null" /\ c.user = "null" /\ c.token = Null /\ c.expires = Null

\* C23: compareCookie invokes its callback exactly once, with an error and
\* null user, token and expires, whenever the selector has no record in the
\* collection, the cookie has expired, or the presented token does not hash
\* to the stored token; in each case the stored token is left unchanged.
C23_RejectedCookie ==
    [][ \A r \in 1..Len(rq) :
          (/\ FoundStep(r)
           /\ \/ Stored(r) = {}
              \/ \E d \in Stored(r) :
                     today > d.expires \/ d.token # shaHash(rq[r].token)) =>
              /\ Len(rq'[r].cb) = 1
              /\ FailureCallback(rq'[r].cb[1])
              /\ remember' = remember
      ]_vars

\* C24: on every path the middleware calls next() exactly once; it sets
\* req.session.user only when compareCookie succeeded for the presented
\* selector and token, clears the cookie and leaves the session without a
\* user when it failed, and compares no cookie at all when the session
\* already has a user or no cookie was sent.
C24_NextOnce ==
    \A r \in 1..Len(rq) :
        LET q == rq[r]
        IN  /\ q.nexts <= 1
            /\ q.pc \in {"done", "threw"} => q.nexts = 1
            /\ (~q.hadUser /\ q.session # "undefined") =>
                   /\ q.cb = << [err |-> "null", user |-> q.session,
                                 token |-> q.newToken, expires |-> q.expires] >>
                   /\ q.cookieSet.selector = q.selector
            /\ (q.cb # <<>> /\ q.cb[1].err # "null") =>
                   q.cleared /\ q.session = "undefined"
            /\ (q.hadUser \/ ~q.cookieSent) => ~q.compared /\ q.cb = <<>>

\* compareCookie of request r succeeded.
Succeeded(r) == rq[r].cb # <<>> /\ rq[r].cb[1].err = "null"

\* The step is the one in which compareCookie of request r succeeds.
SuccessStep(r) == ~Succeeded(r) /\ rq'[r].cb # <<>> /\ rq'[r].cb[1].err = "null"

\* C29: remember-me tokens are single-use.  When compareCookie succeeds for
\* selector S with token T and returns T', the stored document of S has the
\* hash of T' and the user and expiry it had; T was not accepted before;
\* and the newest token returned for a selector is the one that is stored,
\* so that it is accepted and the older ones are not.
C29_SingleUse ==
    [][ \A r \in 1..Len(rq) :
          SuccessStep(r) =>
              /\ \E d \in Stored(r) :
                     {e \in remember' : e.selector = rq[r].selector}
                         = {[d EXCEPT !.token = shaHash(rq'[r].cb[1].token)]}
              /\ \A o \in 1..Len(rq) :
                     (Succeeded(o) /\ rq[o].selector = rq[r].selector) =>
                         /\ rq[o].token # rq[r].token
                         /\ rq[o].cb[1].token # rq'[r].cb[1].token
      ]_vars

====
